---- MODULE Spec2Model ----
(***************************************************************************)
(* The QUIC packet builder of neqo-transport/src/packet2.rs.               *)
(*                                                                         *)
(* One Encoder moves between the caller and a PacketBuilder: short()/long() *)
(* take it, build()/abort()/into() give it back.  Offsets are the source's *)
(* 0-based byte offsets; At/Slice/Put translate them to TLA+ sequences.     *)
(***************************************************************************)
EXTENDS Integers, Sequences, FiniteSets, TLC

(* ------------------------------ bounds -------------------------------- *)
\* Calls of initial_token/pn/encode the caller makes on its one builder.
MaxOps == 3
\* Builders the caller starts one after the other on the same buffer, and
\* the calls of initial_token/pn/encode it spreads over them.
MaxPackets == 2
MaxCoalesceOps == 3
\* Calls of initial_token/pn/encode on a builder that is given a payload
\* near the limit of the 14-bit length field, and the size of that payload.
MaxBigOps == 2
BigPayloadLen == 16364

(* ----------------------------- constants ------------------------------ *)
PACKET_TYPE_INITIAL == 0
PACKET_TYPE_0RTT == 1
PACKET_TYPE_HANDSHAKE == 2
PACKET_TYPE_RETRY == 3
PACKET_BIT_LONG == 128
PACKET_BIT_SHORT == 0
PACKET_BIT_FIXED_QUIC == 64
SAMPLE_SIZE == 16
\* crate::QUIC_VERSION is 0xff000018 (draft-24); kept as its four big-endian
\* bytes because the value does not fit TLC's integers.
QUIC_VERSION == <<255, 0, 0, 24>>
\* u64::max_value(), the packet number short()/long() store; TLC's integers
\* are 32 bits wide, so the largest of them stands for it.
U64_MAX == 2147483647

PacketType == {"VersionNegotiation", "Initial", "Handshake", "ZeroRtt", "Retry", "Short"}

(* ------------------------------- bytes -------------------------------- *)
Byte == 0..255

RECURSIVE BitOp(_, _, _, _)
\* Bitwise combination of the low n bits of a and b; op is the truth table
\* of one bit, indexed by 2*bit(a) + bit(b) + 1.
BitOp(op, a, b, n) ==
    IF n = 0 THEN 0
    ELSE op[2 * (a % 2) + (b % 2) + 1] + 2 * BitOp(op, a \div 2, b \div 2, n - 1)

BitAnd(a, b) == BitOp(<<0, 0, 0, 1>>, a, b, 8)
BitOr(a, b) == BitOp(<<0, 1, 1, 1>>, a, b, 8)
BitXor(a, b) == BitOp(<<0, 1, 1, 0>>, a, b, 8)

\* s[i] of a Rust slice (0-based).
At(s, i) == s[i + 1]
\* s[a..b] of a Rust slice (0-based, half-open).
Slice(s, a, b) == SubSeq(s, a + 1, b)
\* s[i] = v.
Put(s, i, v) == [s EXCEPT ![i + 1] = v]
\* [0; n]
Zeros(n) == [i \in 1..n |-> 0]
\* Range::len(): 0 for an empty or inverted range.
RangeLen(r) == IF r.end > r.start THEN r.end - r.start ELSE 0

(* ------------------------------ Encoder ------------------------------- *)
\* Encoder::encode_byte
encode_byte(enc, b) == Append(enc, b)
\* Encoder::encode
encode(enc, data) == enc \o data
\* Encoder::encode_uint: the low n bytes of v, most significant first.
encode_uint(enc, n, v) == enc \o [i \in 1..n |-> (v \div (256 ^ (n - i))) % 256]
\* Encoder::encode_vec: an n-byte length, then the bytes.
encode_vec(enc, n, v) == encode(encode_uint(enc, n, Len(v)), v)
\* Encoder::encode_varint
encode_varint(enc, v) ==
    IF v < 64 THEN encode_uint(enc, 1, v)
    ELSE IF v < 16384 THEN encode(enc, <<64 + (v \div 256), v % 256>>)
    ELSE encode(enc, <<128 + (v \div 16777216), (v \div 65536) % 256,
                       (v \div 256) % 256, v % 256>>)
\* Encoder::encode_vvec: a varint length, then the bytes.
encode_vvec(enc, v) == encode(encode_varint(enc, Len(v)), v)
\* Encoder::truncate: no effect when len is not below the current length.
truncate(enc, len) == IF len < Len(enc) THEN SubSeq(enc, 1, len) ELSE enc

(* --------------------------- PacketType::code -------------------------- *)
code_panics(pt) == pt \notin {"Initial", "ZeroRtt", "Handshake", "Retry"}

code(pt) ==
    CASE pt = "Initial" -> PACKET_TYPE_INITIAL
      [] pt = "ZeroRtt" -> PACKET_TYPE_0RTT
      [] pt = "Handshake" -> PACKET_TYPE_HANDSHAKE
      [] pt = "Retry" -> PACKET_TYPE_RETRY

(* ---------------------------- PacketBuilder ---------------------------- *)
\* short() starting the length offset at the start of the header.
short_len_at_header_start(enc, key_phase, dcid) ==
    LET header_start == Len(enc)
        kp == IF key_phase THEN 4 ELSE 0
        e1 == encode_byte(enc, BitOr(BitOr(PACKET_BIT_SHORT, PACKET_BIT_FIXED_QUIC), kp))
        e2 == encode(e1, dcid)
    IN [encoder |-> e2,
        pn |-> U64_MAX,
        header |-> [start |-> header_start, end |-> header_start],
        offsets |-> [first_byte_mask |-> 31,
                     pn |-> [start |-> 0, end |-> 0],
                     len |-> header_start]]

\* PacketBuilder::short
short(enc, key_phase, dcid) ==
    LET header_start == Len(enc)
        kp == IF key_phase THEN 4 ELSE 0
        e1 == encode_byte(enc, BitOr(BitOr(PACKET_BIT_SHORT, PACKET_BIT_FIXED_QUIC), kp))
        e2 == encode(e1, dcid)
    IN [encoder |-> e2,
        pn |-> U64_MAX,
        header |-> [start |-> header_start, end |-> header_start],
        offsets |-> [first_byte_mask |-> 31,
                     pn |-> [start |-> 0, end |-> 0],
                     len |-> 0]]

\* PacketBuilder::long
long(enc, pt, dcid, scid) ==
    LET header_start == Len(enc)
        e1 == encode_byte(enc, BitOr(BitOr(PACKET_BIT_LONG, PACKET_BIT_FIXED_QUIC),
                                     (code(pt) * 16) % 256))
        e2 == encode(e1, QUIC_VERSION)
        e3 == encode_vec(e2, 1, dcid)
        e4 == encode_vec(e3, 1, scid)
    IN [encoder |-> e4,
        pn |-> U64_MAX,
        header |-> [start |-> header_start, end |-> header_start],
        offsets |-> [first_byte_mask |-> 15,
                     pn |-> [start |-> 0, end |-> 0],
                     len |-> 0]]

\* The assertion of initial_token() looking at the long-header bit only.
initial_token_check_long_only(self) ==
    BitAnd(At(self.encoder, self.header.start), 128) = PACKET_BIT_LONG

\* The debug_assert_eq! of PacketBuilder::initial_token.
initial_token_check(self) ==
    BitAnd(At(self.encoder, self.header.start), 176)
        = BitOr(PACKET_BIT_LONG, (PACKET_TYPE_INITIAL * 16) % 256)

\* PacketBuilder::initial_token, past its assertion.
initial_token(self, token) ==
    [self EXCEPT !.encoder = encode_vvec(self.encoder, token)]

\* pn() patching the packet-number length into the first byte of the buffer
\* instead of the first byte of the header.
pn_patches_buffer_start(self, pnv, pn_len) ==
    LET is_long == BitAnd(At(self.encoder, self.header.start), 128) = PACKET_BIT_LONG
        len_off == IF is_long THEN Len(self.encoder) ELSE self.offsets.len
        e1 == IF is_long THEN encode(self.encoder, Zeros(2)) ELSE self.encoder
        pn_offset == Len(e1)
        e2 == encode_uint(e1, pn_len, pnv)
        e3 == Put(e2, 0, BitOr(At(e2, 0), (pn_len - 1) % 256))
    IN [encoder |-> e3,
        pn |-> pnv,
        header |-> [start |-> self.header.start, end |-> Len(e3)],
        offsets |-> [first_byte_mask |-> self.offsets.first_byte_mask,
                     pn |-> [start |-> pn_offset, end |-> Len(e2)],
                     len |-> len_off]]

\* pn() taking the header to end four bytes behind the start of the packet
\* number, whatever its length.
pn_header_end_fixed(self, pnv, pn_len) ==
    LET is_long == BitAnd(At(self.encoder, self.header.start), 128) = PACKET_BIT_LONG
        len_off == IF is_long THEN Len(self.encoder) ELSE self.offsets.len
        e1 == IF is_long THEN encode(self.encoder, Zeros(2)) ELSE self.encoder
        pn_offset == Len(e1)
        e2 == encode_uint(e1, pn_len, pnv)
        e3 == Put(e2, self.header.start,
                  BitOr(At(e2, self.header.start), (pn_len - 1) % 256))
    IN [encoder |-> e3,
        pn |-> pnv,
        header |-> [start |-> self.header.start, end |-> pn_offset + 4],
        offsets |-> [first_byte_mask |-> self.offsets.first_byte_mask,
                     pn |-> [start |-> pn_offset, end |-> Len(e2)],
                     len |-> len_off]]

\* pn() writing pn_len, not pn_len - 1, into the first byte.
pn_encodes_length(self, pnv, pn_len) ==
    LET is_long == BitAnd(At(self.encoder, self.header.start), 128) = PACKET_BIT_LONG
        len_off == IF is_long THEN Len(self.encoder) ELSE self.offsets.len
        e1 == IF is_long THEN encode(self.encoder, Zeros(2)) ELSE self.encoder
        pn_offset == Len(e1)
        e2 == encode_uint(e1, pn_len, pnv)
        e3 == Put(e2, self.header.start,
                  BitOr(At(e2, self.header.start), pn_len % 4))
    IN [encoder |-> e3,
        pn |-> pnv,
        header |-> [start |-> self.header.start, end |-> Len(e3)],
        offsets |-> [first_byte_mask |-> self.offsets.first_byte_mask,
                     pn |-> [start |-> pn_offset, end |-> Len(e2)],
                     len |-> len_off]]

\* PacketBuilder::pn
pn(self, pnv, pn_len) ==
    LET is_long == BitAnd(At(self.encoder, self.header.start), 128) = PACKET_BIT_LONG
        len_off == IF is_long THEN Len(self.encoder) ELSE self.offsets.len
        e1 == IF is_long THEN encode(self.encoder, Zeros(2)) ELSE self.encoder
        pn_offset == Len(e1)
        e2 == encode_uint(e1, pn_len, pnv)
        e3 == Put(e2, self.header.start,
                  BitOr(At(e2, self.header.start), (pn_len - 1) % 256))
    IN [encoder |-> e3,
        pn |-> pnv,
        header |-> [start |-> self.header.start, end |-> Len(e3)],
        offsets |-> [first_byte_mask |-> self.offsets.first_byte_mask,
                     pn |-> [start |-> pn_offset, end |-> Len(e2)],
                     len |-> len_off]]

\* write_len() leaving the tag out of the length.
write_len_without_expansion(self, expansion) ==
    LET len == Len(self.encoder) - (self.offsets.len + 2)
        e1 == Put(self.encoder, self.offsets.len, BitOr(64, (len \div 256) % 64))
        e2 == Put(e1, self.offsets.len + 1, len % 256)
    IN [self EXCEPT !.encoder = e2]

\* PacketBuilder::write_len
write_len(self, expansion) ==
    LET len == Len(self.encoder) - (self.offsets.len + 2) + expansion
        e1 == Put(self.encoder, self.offsets.len, BitOr(64, (len \div 256) % 64))
        e2 == Put(e1, self.offsets.len + 1, len % 256)
    IN [self EXCEPT !.encoder = e2]

(* ---------------- the encryption provider (CryptoDxState) -------------- *)
\* A provider is what build() is handed: its tag length and whether its two
\* fallible calls succeed.
Provider(expansion, encrypt_ok, mask_ok) ==
    [expansion |-> expansion, encrypt_ok |-> encrypt_ok, mask_ok |-> mask_ok]

RECURSIVE Digest(_, _)
\* A checksum of the first n bytes of s.
Digest(s, n) == IF n = 0 THEN 0 ELSE (s[n] + 3 * Digest(s, n - 1)) % 256

\* CryptoDxState::encrypt: the body enciphered byte for byte, followed by a
\* tag of crypto.expansion bytes that depends on the packet number and on the
\* associated data.
encrypt(crypto, pnv, hdr, body) ==
    LET n == Len(body)
        seed == (pnv % 251) + Digest(hdr, IF Len(hdr) < 64 THEN Len(hdr) ELSE 64)
    IN [i \in 1..(n + crypto.expansion) |->
          IF i <= n THEN (body[i] + 90 + 13 * i + (pnv % 251)) % 256
          ELSE (seed + 31 * (i - n)) % 256]

\* CryptoDxState::compute_mask: five bytes derived from the sample.
compute_mask(crypto, sample) ==
    [k \in 1..5 |-> (sample[k] + 85 + 17 * k) % 256]

\* build(), up to the call of encrypt: the length field is patched if a
\* placeholder was recorded.
build_patched(self, crypto) ==
    IF self.offsets.len > 0 THEN write_len(self, crypto.expansion) ELSE self

\* build() calling encrypt before it patches the length field.
build_encrypt_args_unpatched(self0, crypto) ==
    [pn |-> self0.pn,
     hdr |-> Slice(self0.encoder, self0.header.start, self0.header.end),
     body |-> Slice(self0.encoder, self0.header.end, Len(self0.encoder))]

\* build(): what it passes to encrypt, the packet number, hdr and body.
build_encrypt_args(self0, crypto) ==
    LET self == build_patched(self0, crypto)
    IN [pn |-> self.pn,
        hdr |-> Slice(self.encoder, self.header.start, self.header.end),
        body |-> Slice(self.encoder, self.header.end, Len(self.encoder))]

\* build() sampling as if the packet number were always one byte long.
sample_offset_ignores_pn_len(self) == 3

\* build(): where the sample starts in the ciphertext.
sample_offset(self) == 4 - RangeLen(self.offsets.pn)

\* The sampling assert! with < for <=.
sample_fits_strict(self, ciphertext) == sample_offset(self) + SAMPLE_SIZE < Len(ciphertext)

\* build(): the condition of the sampling assert!.
sample_fits(self, ciphertext) == sample_offset(self) + SAMPLE_SIZE <= Len(ciphertext)

RECURSIVE apply_mask(_, _, _, _)
\* build(): the loop over (1..=pn.len()).zip(pn), encoder[j] ^= mask[i].
apply_mask(enc, mask, i, pnr) ==
    IF i > RangeLen(pnr) THEN enc
    ELSE LET j == pnr.start + (i - 1)
         IN apply_mask(Put(enc, j, BitXor(At(enc, j), At(mask, i))), mask, i + 1, pnr)

\* build() XORing the whole of mask[0] into the first byte.
build_masked_whole_first_byte(self, mask) ==
    LET e1 == Put(self.encoder, self.header.start,
                  BitXor(At(self.encoder, self.header.start), At(mask, 0)))
    IN apply_mask(e1, mask, 1, self.offsets.pn)

\* build(): header protection of the first byte and of the packet number.
build_masked(self, mask) ==
    LET e1 == Put(self.encoder, self.header.start,
                  BitXor(At(self.encoder, self.header.start),
                         BitAnd(At(mask, 0), self.offsets.first_byte_mask)))
    IN apply_mask(e1, mask, 1, self.offsets.pn)

\* build() adding the ciphertext without cutting off the plaintext.
build_replace_keeps_plaintext(enc, header_end, ciphertext) == encode(enc, ciphertext)

\* build(): the plaintext is cut off and the ciphertext added back.
build_replace(enc, header_end, ciphertext) ==
    encode(truncate(enc, header_end), ciphertext)

\* build() going on with a mask although compute_mask failed.
build_kind_ignores_mask(crypto, fits) ==
    IF ~crypto.encrypt_ok THEN [kind |-> "Err", error |-> "encrypt"]
    ELSE IF ~fits THEN [kind |-> "Panic", error |-> "sample"]
    ELSE [kind |-> "Ok", error |-> "none"]

\* build(): how it ends.  "Err" is the ? after encrypt or compute_mask,
\* "Panic" the sampling assert!, "Ok" the Ok(self.encoder) at the end.
build_kind(crypto, fits) ==
    IF ~crypto.encrypt_ok THEN [kind |-> "Err", error |-> "encrypt"]
    ELSE IF ~fits THEN [kind |-> "Panic", error |-> "sample"]
    ELSE IF ~crypto.mask_ok THEN [kind |-> "Err", error |-> "mask"]
    ELSE [kind |-> "Ok", error |-> "none"]

\* PacketBuilder::build.  encoder is the returned buffer when kind is "Ok",
\* and otherwise the builder's buffer as build left it.
build(self0, crypto) ==
    LET self == build_patched(self0, crypto)
        args == build_encrypt_args(self0, crypto)
        ciphertext == encrypt(crypto, args.pn, args.hdr, args.body)
        k == build_kind(crypto, sample_fits(self, ciphertext))
        offset == sample_offset(self)
        sample == Slice(ciphertext, offset, offset + SAMPLE_SIZE)
        mask == compute_mask(crypto, sample)
    IN [kind |-> k.kind, error |-> k.error,
        encoder |-> IF k.kind = "Ok"
                    THEN build_replace(build_masked(self, mask), self.header.end, ciphertext)
                    ELSE self.encoder]

\* abort() cutting at the end of the header instead of its start.
abort_to_header_end(self) == truncate(self.encoder, self.header.end)

\* PacketBuilder::abort
abort(self) == truncate(self.encoder, self.header.start)

\* is_empty() comparing with the start of the header.
is_empty_from_start(self) == Len(self.encoder) = self.header.start

\* PacketBuilder::is_empty
is_empty(self) == Len(self.encoder) = self.header.end

\* into() discarding the packet in progress, as abort() does.
into_discards(self) == truncate(self.encoder, self.header.start)

\* impl Into<Encoder> for PacketBuilder
into(self) == self.encoder

(* ------------------------ the Retry protector (Aead) -------------------- *)
\* Aead::expansion() of the fixed Retry AEAD: the 16-byte tag of AES-128-GCM.
RETRY_EXPANSION == 16

\* Aead::encrypt(0, aad, &[]) of the fixed Retry AEAD: a tag of
\* RETRY_EXPANSION bytes that depends on the associated data.
retry_tag(aad) ==
    LET seed == Len(aad) + Digest(aad, IF Len(aad) < 64 THEN Len(aad) ELSE 64)
    IN [i \in 1..RETRY_EXPANSION |-> (seed + 29 * i) % 256]

(* --------------------------- one-shot packets --------------------------- *)
\* retry(), up to encoder.encode(&tag): the buffer that starts with the
\* length-prefixed odcid.  random is the result of random(1).
retry_complete(dcid, scid, token, odcid, random) ==
    LET e0 == encode_vec(<<>>, 1, odcid)
        e1 == encode_byte(e0, BitOr(BitOr(BitOr(PACKET_BIT_LONG, PACKET_BIT_FIXED_QUIC),
                                          (PACKET_TYPE_RETRY * 16) % 256),
                                    BitAnd(At(random, 0), 15)))
        e2 == encode(e1, QUIC_VERSION)
        e3 == encode_vec(e2, 1, dcid)
        e4 == encode_vec(e3, 1, scid)
        e5 == encode(e4, token)
    IN encode(e5, retry_tag(e5))

\* retry(): where the transmitted header starts in that buffer.
retry_start(odcid) == Len(encode_vec(<<>>, 1, odcid))

\* retry() returning the whole buffer, odcid included.
retry_keeps_odcid(dcid, scid, token, odcid, random, aead) ==
    IF aead = "unavailable" THEN [kind |-> "Err", error |-> "InternalError", bytes |-> <<>>]
    ELSE IF aead = "encrypt" THEN [kind |-> "Err", error |-> "encrypt", bytes |-> <<>>]
    ELSE [kind |-> "Ok", error |-> "none",
          bytes |-> retry_complete(dcid, scid, token, odcid, random)]

\* PacketBuilder::retry.  aead says how the thread's Retry AEAD answers:
\* "ok", "unavailable" (try_with fails) or "encrypt" (its encrypt fails).
retry(dcid, scid, token, odcid, random, aead) ==
    IF aead = "unavailable" THEN [kind |-> "Err", error |-> "InternalError", bytes |-> <<>>]
    ELSE IF aead = "encrypt" THEN [kind |-> "Err", error |-> "encrypt", bytes |-> <<>>]
    ELSE LET complete == retry_complete(dcid, scid, token, odcid, random)
         IN [kind |-> "Ok", error |-> "none",
             bytes |-> Slice(complete, retry_start(odcid), Len(complete))]

\* version_negotiation() writing the random bytes as they are.
grease_version_unpatched(grease) == Slice(grease, 0, 4)

\* version_negotiation(): the greased version, *g = *g & 0xf0 | 0x0a for
\* each of grease[0..4].
grease_version(grease) ==
    [i \in 1..4 |-> BitOr(BitAnd(grease[i], 240), 10)]

\* PacketBuilder::version_negotiation.  grease is the result of random(5).
version_negotiation(dcid, scid, grease) ==
    LET e1 == encode_byte(<<>>, BitOr(PACKET_BIT_LONG, BitAnd(At(grease, 4), 127)))
        e2 == encode(e1, Zeros(4))
        e3 == encode_vec(e2, 1, dcid)
        e4 == encode_vec(e3, 1, scid)
        e5 == encode(e4, QUIC_VERSION)
    IN encode(e5, grease_version(grease))

(* ------------------------------- inputs -------------------------------- *)
CLIENT_CID == <<131, 148, 200, 240, 62, 81, 87, 8>>
SERVER_CID == <<240, 103, 165, 80, 42, 66, 98, 181>>

\* Destination connection IDs given to short().
Cids == {SERVER_CID}
\* (dcid, scid) given to long().
CidPairs == {<<<<>>, SERVER_CID>>}
\* Tokens given to initial_token().
Tokens == {<<116, 111>>}
\* (pn, pn_len) given to pn(): every length, and values wider than the field.
PnArgs == {<<0, 1>>, <<258, 2>>, <<1, 3>>, <<66051, 4>>}
\* Payloads appended through DerefMut (builder.encode(..)).
Payloads == {<<13>>, <<0, 0, 0>>}
\* What the caller's Encoder holds before the first builder is started.
InitialBuffers == {<<>>, <<192, 255, 0>>}
\* Providers handed to build().
Providers == {Provider(16, TRUE, TRUE), Provider(18, TRUE, TRUE), Provider(19, TRUE, TRUE),
              Provider(16, FALSE, TRUE), Provider(16, TRUE, FALSE)}

(* -------------------------------- state -------------------------------- *)
VARIABLES
    state,       \* who holds the Encoder: "caller", "builder", or nobody
                 \* ("dropped" after Err, "panicked" after a failed assertion)
    buffer,      \* the Encoder while the caller holds it
    builder,     \* the PacketBuilder; once consumed, the value that was consumed
    dropped,     \* history: the builder's buffer as a failed build() left it
    origin,      \* history: the Encoder as it was handed to short()/long()
    payloadLen,  \* history: bytes appended with encode() on this builder
    sincePn,     \* history: bytes appended since the last pn() on this builder
    pnCalls,     \* history: calls of pn() on this builder
    pkts,        \* history: lengths of what each build()/into() left in the buffer
    last,        \* history: the last call, its outcome and its provider
    opsLeft,     \* calls of initial_token/pn/encode the caller may still make
    pktsLeft,    \* builders the caller may still start
    started,     \* history: the call that made this builder and its packet type
    encrypted,   \* history: the arguments of the last call of encrypt
    made         \* a call of a one-shot constructor: its inputs and result

vars == <<state, buffer, builder, dropped, origin, payloadLen, sincePn, pnCalls, pkts,
          last, opsLeft, pktsLeft, started, encrypted, made>>

NoProvider == Provider(0, FALSE, FALSE)

NoBuilder ==
    [encoder |-> <<>>, pn |-> 0,
     header |-> [start |-> 0, end |-> 0],
     offsets |-> [first_byte_mask |-> 0, pn |-> [start |-> 0, end |-> 0], len |-> 0]]

Call(op, kind, error, crypto) ==
    [op |-> op, kind |-> kind, error |-> error, crypto |-> crypto]

\* No builder was started yet.
NoStart == [fn |-> "none", pt |-> "none"]

\* encrypt was not called yet.
NoArgs == [pn |-> 0, hdr |-> <<>>, body |-> <<>>]

NoResult == [kind |-> "none", error |-> "none", bytes |-> <<>>]

NoCall ==
    [fn |-> "none", dcid |-> <<>>, scid |-> <<>>, token |-> <<>>, odcid |-> <<>>,
     random |-> <<>>, aead |-> "ok", done |-> FALSE, result |-> NoResult]

\* The caller holds an Encoder with the bytes buf and will start at most
\* packets builders and make at most ops calls on them.
InitWith(buf, ops, packets) ==
    /\ state = "caller"
    /\ buffer = buf
    /\ builder = NoBuilder
    /\ dropped = <<>>
    /\ origin = <<>>
    /\ payloadLen = 0
    /\ sincePn = 0
    /\ pnCalls = 0
    /\ pkts = <<>>
    /\ last = Call("new", "Ok", "none", NoProvider)
    /\ opsLeft = ops
    /\ pktsLeft = packets
    /\ started = NoStart
    /\ encrypted = NoArgs
    /\ made = NoCall

\* One packet, built on Encoder::new() or behind bytes already in the buffer.
Init == \E buf \in InitialBuffers : InitWith(buf, MaxOps, 1)

\* The caller starts a builder b for a packet of type pt on its buffer.
Start(op, pt, b) ==
    /\ state' = "builder"
    /\ builder' = b
    /\ origin' = buffer
    /\ buffer' = <<>>
    /\ payloadLen' = 0
    /\ sincePn' = 0
    /\ pnCalls' = 0
    /\ last' = Call(op, "Ok", "none", NoProvider)
    /\ pktsLeft' = pktsLeft - 1
    /\ started' = [fn |-> op, pt |-> pt]
    /\ UNCHANGED <<dropped, pkts, opsLeft, encrypted, made>>

\* A call panics: the Encoder is gone with the unwinding.
Panic(op, error) ==
    /\ state' = "panicked"
    /\ buffer' = <<>>
    /\ last' = Call(op, "Panic", error, NoProvider)
    /\ UNCHANGED <<builder, dropped, origin, payloadLen, sincePn, pnCalls, pkts, opsLeft, pktsLeft, started, encrypted, made>>

Short(key_phase, dcid) ==
    /\ state = "caller"
    /\ pktsLeft > 0
    /\ Start("short", "Short", short(buffer, key_phase, dcid))

Long(pt, dcid, scid) ==
    /\ state = "caller"
    /\ pktsLeft > 0
    /\ IF code_panics(pt)
       THEN Panic("long", "code")
       ELSE Start("long", pt, long(buffer, pt, dcid, scid))

\* initial_token(): the assertion is compiled in only with debug_assertions,
\* so a failing check either panics or is not made at all.
InitialToken(token) ==
    /\ state = "builder"
    /\ opsLeft > 0
    /\ \/ /\ ~initial_token_check(builder)
          /\ Panic("initial_token", "check")
       \/ /\ builder' = initial_token(builder, token)
          /\ sincePn' = sincePn + (Len(builder'.encoder) - Len(builder.encoder))
          /\ last' = Call("initial_token", "Ok", "none", NoProvider)
          /\ opsLeft' = opsLeft - 1
          /\ UNCHANGED <<state, buffer, dropped, origin, payloadLen, pnCalls, pkts, pktsLeft, started, encrypted, made>>

Pn(pnv, pn_len) ==
    /\ state = "builder"
    /\ opsLeft > 0
    /\ builder' = pn(builder, pnv, pn_len)
    /\ sincePn' = 0
    /\ pnCalls' = pnCalls + 1
    /\ last' = Call("pn", "Ok", "none", NoProvider)
    /\ opsLeft' = opsLeft - 1
    /\ UNCHANGED <<state, buffer, dropped, origin, payloadLen, pkts, pktsLeft, started, encrypted, made>>

\* builder.encode(data), through DerefMut.
Encode(data) ==
    /\ state = "builder"
    /\ opsLeft > 0
    /\ builder' = [builder EXCEPT !.encoder = encode(builder.encoder, data)]
    /\ payloadLen' = payloadLen + Len(data)
    /\ sincePn' = sincePn + Len(data)
    /\ last' = Call("encode", "Ok", "none", NoProvider)
    /\ opsLeft' = opsLeft - 1
    /\ UNCHANGED <<state, buffer, dropped, origin, pnCalls, pkts, pktsLeft, started, encrypted, made>>

Build(crypto) ==
    /\ state = "builder"
    /\ LET r == build(builder, crypto)
       IN /\ state' = CASE r.kind = "Ok" -> "caller"
                        [] r.kind = "Err" -> "dropped"
                        [] r.kind = "Panic" -> "panicked"
          /\ buffer' = IF r.kind = "Ok" THEN r.encoder ELSE <<>>
          /\ dropped' = IF r.kind = "Ok" THEN dropped ELSE r.encoder
          /\ pkts' = IF r.kind = "Ok"
                     THEN Append(pkts, [op |-> "build",
                                        len |-> Len(builder.encoder) - builder.header.start
                                                  + crypto.expansion])
                     ELSE pkts
          /\ last' = Call("build", r.kind, r.error, crypto)
    /\ encrypted' = build_encrypt_args(builder, crypto)
    /\ UNCHANGED <<builder, origin, payloadLen, sincePn, pnCalls, opsLeft, pktsLeft, started, made>>

Abort ==
    /\ state = "builder"
    /\ state' = "caller"
    /\ buffer' = abort(builder)
    /\ last' = Call("abort", "Ok", "none", NoProvider)
    /\ UNCHANGED <<builder, dropped, origin, payloadLen, sincePn, pnCalls, pkts, opsLeft, pktsLeft, started, encrypted, made>>

Into ==
    /\ state = "builder"
    /\ state' = "caller"
    /\ buffer' = into(builder)
    /\ pkts' = Append(pkts, [op |-> "into",
                             len |-> Len(builder.encoder) - builder.header.start])
    /\ last' = Call("into", "Ok", "none", NoProvider)
    /\ UNCHANGED <<builder, dropped, origin, payloadLen, sincePn, pnCalls, opsLeft, pktsLeft, started, encrypted, made>>

Next ==
    \/ \E kp \in BOOLEAN, dcid \in Cids : Short(kp, dcid)
    \/ \E pt \in PacketType, c \in CidPairs : Long(pt, c[1], c[2])
    \/ \E token \in Tokens : InitialToken(token)
    \/ \E a \in PnArgs : Pn(a[1], a[2])
    \/ \E data \in Payloads : Encode(data)
    \/ \E crypto \in Providers : Build(crypto)
    \/ Abort
    \/ Into

Spec == Init /\ [][Next]_vars

(* Coalescing: several packets into one buffer, with fewer inputs. *)
CoalescePnArgs == {<<0, 1>>, <<66051, 4>>}
CoalescePayloads == {<<0, 0, 0>>}
CoalesceProviders == {Provider(16, TRUE, TRUE)}

InitCoalesce == InitWith(<<>>, MaxCoalesceOps, MaxPackets)

NextCoalesce ==
    \/ \E dcid \in Cids : Short(FALSE, dcid)
    \/ \E pt \in {"Initial", "Handshake"}, c \in CidPairs : Long(pt, c[1], c[2])
    \/ \E token \in Tokens : InitialToken(token)
    \/ \E a \in CoalescePnArgs : Pn(a[1], a[2])
    \/ \E data \in CoalescePayloads : Encode(data)
    \/ \E crypto \in CoalesceProviders : Build(crypto)
    \/ Abort
    \/ Into

SpecCoalesce == InitCoalesce /\ [][NextCoalesce]_vars

(* The one-shot constructors: the inputs are drawn first, then the call is made. *)
OneShotCids == {<<>>, CLIENT_CID, SERVER_CID}
OneShotTokens == {<<>>, <<116, 111, 107, 101, 110>>}
\* Values of one byte of random().
RandomBytes == {0, 15, 90, 165, 240, 255}
AeadAnswers == {"ok", "unavailable", "encrypt"}

RetryCalls ==
    {[fn |-> "retry", dcid |-> d, scid |-> s, token |-> t, odcid |-> o,
      random |-> <<r>>, aead |-> a, done |-> FALSE, result |-> NoResult] :
        d \in OneShotCids, s \in OneShotCids, t \in OneShotTokens, o \in OneShotCids,
        r \in RandomBytes, a \in AeadAnswers}

\* Results of random(5).
GreaseBytes == {<<0, 0, 0, 0, 0>>, <<255, 255, 255, 255, 255>>,
                <<18, 52, 86, 120, 154>>, <<15, 240, 165, 90, 127>>}

VnCalls ==
    {[fn |-> "version_negotiation", dcid |-> d, scid |-> s, token |-> <<>>,
      odcid |-> <<>>, random |-> g, aead |-> "ok", done |-> FALSE, result |-> NoResult] :
        d \in OneShotCids, s \in OneShotCids, g \in GreaseBytes}

InitOneShot ==
    /\ state = "caller"
    /\ buffer = <<>>
    /\ builder = NoBuilder
    /\ dropped = <<>>
    /\ origin = <<>>
    /\ payloadLen = 0
    /\ sincePn = 0
    /\ pnCalls = 0
    /\ pkts = <<>>
    /\ last = Call("new", "Ok", "none", NoProvider)
    /\ opsLeft = 0
    /\ pktsLeft = 0
    /\ started = NoStart
    /\ encrypted = NoArgs
    /\ made \in RetryCalls \cup VnCalls

Retry ==
    /\ made.fn = "retry"
    /\ ~made.done
    /\ made' = [made EXCEPT !.done = TRUE,
                            !.result = retry(made.dcid, made.scid, made.token, made.odcid,
                                             made.random, made.aead)]
    /\ UNCHANGED <<state, buffer, builder, dropped, origin, payloadLen, sincePn, pnCalls,
                   pkts, last, opsLeft, pktsLeft, started, encrypted>>

VersionNegotiation ==
    /\ made.fn = "version_negotiation"
    /\ ~made.done
    /\ made' = [made EXCEPT !.done = TRUE,
                            !.result = [kind |-> "Ok", error |-> "none",
                                        bytes |-> version_negotiation(made.dcid, made.scid,
                                                                      made.random)]]
    /\ UNCHANGED <<state, buffer, builder, dropped, origin, payloadLen, sincePn, pnCalls,
                   pkts, last, opsLeft, pktsLeft, started, encrypted>>

NextOneShot ==
    \/ Retry
    \/ VersionNegotiation

SpecOneShot == InitOneShot /\ [][NextOneShot]_vars

(* Long headers with payloads up to the limit of the length field. *)
BigPayloads == {<<13>>, Zeros(BigPayloadLen)}
BigProviders == {Provider(16, TRUE, TRUE)}

InitBig == InitWith(<<>>, MaxBigOps, 1)

NextBig ==
    \/ \E pt \in {"Initial", "Handshake"}, c \in CidPairs : Long(pt, c[1], c[2])
    \/ \E token \in Tokens : InitialToken(token)
    \/ \E a \in PnArgs : Pn(a[1], a[2])
    \/ \E data \in BigPayloads : Encode(data)
    \/ \E crypto \in BigProviders : Build(crypto)
    \/ Abort

SpecBig == InitBig /\ [][NextBig]_vars

TypeOK ==
    /\ state \in {"caller", "builder", "dropped", "panicked"}
    /\ \A i \in 1..Len(buffer) : buffer[i] \in Byte
    /\ \A i \in 1..Len(builder.encoder) : builder.encoder[i] \in Byte
    /\ opsLeft \in Nat
    /\ pktsLeft \in Nat

(* ------------------------------- claims -------------------------------- *)
Prefix(s, n) == SubSeq(s, 1, n)
\* The builder's first header byte has the long-header bit.
IsLong(b) == At(b.encoder, b.header.start) >= 128
\* The buffer was handed back by the last call.
Returned(op) == state = "caller" /\ last.op = op /\ last.kind = "Ok"

RECURSIVE SumLen(_, _)
SumLen(ps, n) == IF n = 0 THEN 0 ELSE ps[n].len + SumLen(ps, n - 1)

\* C1: abort() returns a buffer exactly as long as the buffer short()/long()
\* was started on, whatever initial_token(), pn() and appends came between.
C1_AbortRestoresLength ==
    Returned("abort") => Len(buffer) = Len(origin)

C1_Witness ==
    /\ Returned("abort")
    /\ Len(origin) > 0
    /\ pnCalls > 0
    /\ payloadLen > 0
    /\ Len(builder.encoder) > Len(origin)

\* C2: the bytes the buffer held when the builder was started are never
\* changed: not while the builder is filled, not by write_len, not in the
\* buffer build(), abort() or into() hand back; so packet A stays a prefix of
\* the buffer after packet B is built behind it.
C2_EarlierBytesKept ==
    /\ state = "builder" =>
         /\ Len(builder.encoder) >= Len(origin)
         /\ Prefix(builder.encoder, Len(origin)) = origin
         /\ \A c \in CoalesceProviders :
               Prefix(build_patched(builder, c).encoder, Len(origin)) = origin
    /\ (state = "caller" /\ last.op \in {"build", "abort", "into"}) =>
         /\ Len(buffer) >= Len(origin)
         /\ Prefix(buffer, Len(origin)) = origin
    /\ (state = "dropped" /\ last.op = "build") =>
         Prefix(dropped, Len(origin)) = origin

C2_Witness ==
    /\ Returned("build")
    /\ Len(pkts) = 2
    /\ pkts[1].op = "build"
    /\ pkts[2].op = "build"
    /\ Len(origin) = pkts[1].len
    /\ pnCalls > 0

\* The state of C3: build() was called on a long-header builder with a 1-byte
\* packet number and no payload, and encrypt succeeded.
C3_Case ==
    /\ last.op = "build"
    /\ last.crypto.encrypt_ok
    /\ IsLong(builder)
    /\ pnCalls > 0
    /\ RangeLen(builder.offsets.pn) = 1
    /\ Len(builder.encoder) = builder.header.end

\* C3 as stated: with a tag of at least 16 bytes the sampling assertion does
\* not fire.
C3_Original ==
    (C3_Case /\ last.crypto.expansion >= 16) => last.kind # "Panic"

\* C3 amended: once encrypt has succeeded, the sampling assertion passes
\* exactly when the tag is at least 19 bytes long (3 bytes of offset and 16
\* of sample, all from the tag).
C3_TagOfNineteen ==
    C3_Case => (last.kind # "Panic" <=> last.crypto.expansion >= 19)

C3_Witness ==
    /\ C3_Case
    /\ last.crypto.expansion = 19
    /\ Returned("build")

\* What build() leaves from header_start on: the header, then the ciphertext
\* of the body with its tag.
ProtectedPacket ==
    LET p == build_patched(builder, last.crypto)
        hdr == Slice(p.encoder, p.header.start, p.header.end)
        body == Slice(p.encoder, p.header.end, Len(p.encoder))
        ciphertext == encrypt(last.crypto, p.pn, hdr, body)
    IN /\ Len(buffer) = p.header.end + Len(body) + last.crypto.expansion
       /\ Slice(buffer, p.header.end, Len(buffer)) = ciphertext
       /\ Prefix(buffer, p.header.start) = origin

\* C4 as stated: the caller gets the buffer back from build() or abort() only.
C4_Original ==
    (state = "caller" /\ last.op # "new") => last.op \in {"build", "abort"}

\* C4 amended: the caller gets the buffer back from build(), abort() or the
\* Into<Encoder> conversion; after abort() it holds nothing from header_start
\* on, after build() one protected packet, after into() the unprotected
\* packet in progress.
C4_HandedBack ==
    (state = "caller" /\ last.op # "new") =>
        \/ last.op = "abort" /\ buffer = origin
        \/ last.op = "build" /\ last.kind = "Ok" /\ ProtectedPacket
        \/ /\ last.op = "into"
           /\ buffer = builder.encoder
           /\ Prefix(buffer, builder.header.start) = origin

C4_Witness ==
    /\ Returned("into")
    /\ pnCalls > 0
    /\ payloadLen > 0
    /\ Len(buffer) > Len(origin)

\* C5: once pn() was called, is_empty() is true exactly while nothing has
\* been appended since that call.
C5_EmptyAfterPn ==
    (state = "builder" /\ pnCalls > 0) => (is_empty(builder) <=> sincePn = 0)

C5_Witness ==
    /\ state = "builder"
    /\ pnCalls > 0
    /\ payloadLen > 0
    /\ sincePn > 0
    /\ ~is_empty(builder)

\* C6: in every builder state, is_empty() is true exactly when no payload
\* byte was appended.
C6_EmptyIffNoPayload ==
    state = "builder" => (is_empty(builder) <=> payloadLen = 0)

\* The number the length field of a long header is to hold: the packet
\* number, the payload and the tag.
C7_Length == RangeLen(builder.offsets.pn) + sincePn + last.crypto.expansion

\* build() returned a long-header packet on which pn() had been called.
C7_Case == Returned("build") /\ IsLong(builder) /\ pnCalls > 0

\* The two bytes before the packet number have the top bits 01 and hold
\* C7_Length, which is the number of bytes behind them.
C7_Field ==
    LET off == builder.offsets.pn.start - 2
        b0 == At(buffer, off)
        b1 == At(buffer, off + 1)
    IN /\ off = builder.offsets.len
       /\ b0 \div 64 = 1
       /\ (b0 % 64) * 256 + b1 = C7_Length
       /\ C7_Length = Len(buffer) - (off + 2)

\* C7 as stated: the length field of every built long-header packet holds
\* the number of bytes behind it, whatever the payload size.
C7_Original == C7_Case => C7_Field

\* C7 amended: it does so whenever that number is at most 16383, the
\* largest the 14 bits hold.
C7_LengthField == (C7_Case /\ C7_Length <= 16383) => C7_Field

C7_Witness ==
    /\ C7_Case
    /\ sincePn >= BigPayloadLen
    /\ C7_Length <= 16383
    /\ C7_Field

\* C8: a successful build() returns a buffer longer by the tag length than
\* the builder's buffer was, that is header_end + payload + expansion bytes,
\* and the buffer is as long as the packets put into it together.
C8_BuildLength ==
    /\ Returned("build") =>
         /\ Len(buffer) = Len(builder.encoder) + last.crypto.expansion
         /\ pnCalls > 0 =>
              Len(buffer) = builder.header.end + sincePn + last.crypto.expansion
    /\ state = "caller" => Len(buffer) = SumLen(pkts, Len(pkts))

C8_Witness ==
    /\ Returned("build")
    /\ Len(pkts) = 2
    /\ pkts[1].op = "build"
    /\ pkts[2].op = "build"
    /\ sincePn > 0
    /\ Len(buffer) = pkts[1].len + pkts[2].len

\* C9: build() returns Ok only if encrypt and compute_mask both succeeded;
\* when encrypt fails build() returns that error and no buffer, and the
\* builder's buffer is as it was but for the patched length field: no
\* header protection, no ciphertext.
C9_EncryptFailure ==
    /\ (last.op = "build" /\ last.kind = "Ok") =>
         last.crypto.encrypt_ok /\ last.crypto.mask_ok
    /\ (last.op = "build" /\ ~last.crypto.encrypt_ok) =>
         /\ state = "dropped"
         /\ last.kind = "Err"
         /\ last.error = "encrypt"
         /\ buffer = <<>>
         /\ Len(dropped) = Len(builder.encoder)
         /\ \A i \in 0..(Len(dropped) - 1) :
               \/ At(dropped, i) = At(builder.encoder, i)
               \/ /\ builder.offsets.len > 0
                  /\ i \in {builder.offsets.len, builder.offsets.len + 1}

C9_Witness ==
    /\ last.op = "build"
    /\ ~last.crypto.encrypt_ok
    /\ state = "dropped"
    /\ IsLong(builder)
    /\ pnCalls > 0
    /\ sincePn > 0
    /\ dropped # builder.encoder

\* C10: retry() returns the constructed buffer without its leading
\* length-prefixed odcid: a first byte with high nibble 0xF, then version,
\* dcid, scid and token as the inputs give them, whatever odcid and the random
\* nibble are, then the 16-byte tag computed over the buffer with the odcid.
C10_RetryStripsOdcid ==
    (made.fn = "retry" /\ made.done /\ made.result.kind = "Ok") =>
        LET out == made.result.bytes
            n == Len(out)
            header == QUIC_VERSION \o <<Len(made.dcid)>> \o made.dcid
                        \o <<Len(made.scid)>> \o made.scid \o made.token
        IN /\ n = 1 + 4 + (1 + Len(made.dcid)) + (1 + Len(made.scid))
                    + Len(made.token) + 16
           /\ out[1] \div 16 = 15
           /\ out[1] % 16 = made.random[1] % 16
           /\ SubSeq(out, 2, n - 16) = header
           /\ SubSeq(out, n - 15, n)
                = retry_tag(<<Len(made.odcid)>> \o made.odcid \o SubSeq(out, 1, n - 16))

C10_Witness ==
    /\ made.fn = "retry"
    /\ made.done
    /\ made.result.kind = "Ok"
    /\ made.odcid # <<>>
    /\ made.token # <<>>
    /\ made.dcid # made.odcid
    /\ made.random[1] % 16 # 0

\* C11: version_negotiation() returns 1 + 4 + (1 + len(dcid)) + (1 + len(scid))
\* + 4 + 4 bytes: a first byte with bit 7 set, four zero bytes, the two
\* length-prefixed connection IDs, QUIC_VERSION, and four bytes whose low
\* nibble is 0xA, whatever the five random bytes are.
C11_VersionNegotiation ==
    (made.fn = "version_negotiation" /\ made.done) =>
        LET out == made.result.bytes
            n == Len(out)
            d == Len(made.dcid)
            c == Len(made.scid)
        IN /\ made.result.kind = "Ok"
           /\ n = 1 + 4 + (1 + d) + (1 + c) + 4 + 4
           /\ out[1] >= 128
           /\ SubSeq(out, 2, 5) = <<0, 0, 0, 0>>
           /\ SubSeq(out, 6, 7 + d + c) = <<d>> \o made.dcid \o <<c>> \o made.scid
           /\ SubSeq(out, n - 7, n - 4) = QUIC_VERSION
           /\ \A i \in (n - 3)..n : out[i] % 16 = 10

C11_Witness ==
    /\ made.fn = "version_negotiation"
    /\ made.done
    /\ made.dcid # <<>>
    /\ made.scid # <<>>
    /\ \E i \in 1..4 : made.random[i] % 16 # 10
    /\ made.result.bytes[1] \div 64 = 2

\* build() was called after pn() and encrypt succeeded.
C12_Case == last.op = "build" /\ last.crypto.encrypt_ok /\ pnCalls > 0

\* C12: the sampling assertion passes exactly when the ciphertext (the bytes
\* appended after pn() and the tag) holds (4 - pn_len) + 16 bytes; with a
\* 16-byte tag build() succeeds iff at least 4 - pn_len bytes were appended
\* after pn(), and panics otherwise.
C12_SamplingAssertion ==
    C12_Case =>
        LET n == RangeLen(builder.offsets.pn)
        IN /\ n \in 1..4
           /\ last.kind # "Panic" <=> (4 - n) + 16 <= sincePn + last.crypto.expansion
           /\ (last.crypto.expansion = 16 /\ last.crypto.mask_ok) =>
                 /\ last.kind = "Ok" <=> sincePn >= 4 - n
                 /\ last.kind = "Panic" <=> sincePn < 4 - n

C12_Witness ==
    /\ C12_Case
    /\ RangeLen(builder.offsets.pn) = 3
    /\ sincePn = 1
    /\ last.crypto.expansion = 16
    /\ Returned("build")

\* C13: in every builder state header_start <= header_end <= the length of
\* the buffer, and header_start is where the buffer ended when the builder
\* was started.
C13_HeaderRange ==
    state = "builder" =>
        /\ builder.header.start = Len(origin)
        /\ builder.header.start <= builder.header.end
        /\ builder.header.end <= Len(builder.encoder)

C13_Witness ==
    /\ state = "builder"
    /\ Len(origin) > 0
    /\ pnCalls > 0
    /\ payloadLen > 0
    /\ builder.header.start < builder.header.end
    /\ builder.header.end < Len(builder.encoder)

\* C14: in every builder state the length offset is non-zero exactly when
\* the builder was started with long() and pn() has been called; a builder
\* started with short() keeps it 0, on an empty and on a non-empty buffer.
C14_LengthOffset ==
    state = "builder" =>
        (builder.offsets.len > 0 <=> (started.fn = "long" /\ pnCalls > 0))

C14_Witness ==
    /\ state = "builder"
    /\ started.fn = "short"
    /\ Len(origin) > 0
    /\ pnCalls > 0
    /\ payloadLen > 0
    /\ builder.offsets.len = 0

\* The low two bits of the first header byte.
C15_Bits == BitAnd(At(builder.encoder, builder.header.start), 3)

\* The recorded packet-number range is 1 to 4 bytes long and ends at
\* header_end.
C15_Range ==
    /\ RangeLen(builder.offsets.pn) \in 1..4
    /\ builder.offsets.pn.end = builder.header.end

\* C15 as stated: after one or several calls of pn(), the low two bits are
\* the length of the recorded packet-number range minus 1.
C15_Original ==
    (state = "builder" /\ pnCalls > 0) =>
        /\ C15_Range
        /\ C15_Bits = RangeLen(builder.offsets.pn) - 1

\* C15 amended: they are after the first call of pn(); later calls OR their
\* length minus 1 into the bits already set.  The recorded range is that of
\* the last call in either case.
C15_PnLengthBits ==
    (state = "builder" /\ pnCalls > 0) =>
        /\ C15_Range
        /\ pnCalls = 1 => C15_Bits = RangeLen(builder.offsets.pn) - 1
        /\ BitAnd(C15_Bits, RangeLen(builder.offsets.pn) - 1)
              = RangeLen(builder.offsets.pn) - 1

C15_Witness ==
    /\ state = "builder"
    /\ pnCalls = 1
    /\ RangeLen(builder.offsets.pn) = 3
    /\ C15_Bits = 2
    /\ sincePn > 0

\* build() returned a packet on which pn() had been called.
C16_Case == Returned("build") /\ pnCalls > 0

\* C16: between the header build() encrypted with and the header it
\* returns, the first byte differs by mask[0] & first_byte_mask (0x1f for
\* short(), 0x0f for long()), byte k of the recorded packet-number range by
\* mask[k + 1], and no other byte of the header differs.
C16_HeaderProtection ==
    C16_Case =>
        LET hs == builder.header.start
            he == builder.header.end
            pnr == builder.offsets.pn
            fbm == builder.offsets.first_byte_mask
            offset == 4 - RangeLen(pnr)
            mask == compute_mask(last.crypto,
                                 Slice(buffer, he + offset, he + offset + SAMPLE_SIZE))
            plain(i) == At(encrypted.hdr, i - hs)
        IN /\ fbm = IF started.fn = "short" THEN 31 ELSE 15
           /\ Len(encrypted.hdr) = he - hs
           /\ \A i \in hs..(he - 1) :
                 At(buffer, i) =
                     IF i = hs THEN BitXor(plain(i), BitAnd(At(mask, 0), fbm))
                     ELSE IF i >= pnr.start /\ i < pnr.end
                          THEN BitXor(plain(i), At(mask, i - pnr.start + 1))
                     ELSE plain(i)

C16_Witness ==
    /\ C16_Case
    /\ started.pt = "Initial"
    /\ RangeLen(builder.offsets.pn) = 4
    /\ builder.offsets.pn.start > builder.header.start + 17
    /\ At(buffer, builder.header.start) # At(encrypted.hdr, 0)
    /\ Slice(buffer, builder.offsets.pn.start, builder.offsets.pn.end)
         # Slice(builder.encoder, builder.offsets.pn.start, builder.offsets.pn.end)

\* The value write_len() is to leave in the length field.
C17_FinalLength ==
    Len(builder.encoder) - (builder.offsets.len + 2) + last.crypto.expansion

\* C17: encrypt is called with the header range as it is after write_len()
\* and before header protection (the final length value, the first byte and
\* the packet number as pn() left them) and with the bytes from header_end
\* to the end of the buffer as plaintext; what build() returns holds the
\* ciphertext of exactly these arguments behind a header with that length.
C17_EncryptArguments ==
    last.op = "build" =>
        LET hs == builder.header.start
            he == builder.header.end
            lo == builder.offsets.len
            has_len == lo > 0
        IN /\ encrypted.pn = builder.pn
           /\ encrypted.body = Slice(builder.encoder, he, Len(builder.encoder))
           /\ Len(encrypted.hdr) = he - hs
           /\ \A i \in hs..(he - 1) :
                 At(encrypted.hdr, i - hs) =
                     IF has_len /\ i = lo
                     THEN 64 + ((C17_FinalLength \div 256) % 64)
                     ELSE IF has_len /\ i = lo + 1
                     THEN C17_FinalLength % 256
                     ELSE At(builder.encoder, i)
           /\ Returned("build") =>
                 /\ Slice(buffer, he, Len(buffer))
                      = encrypt(last.crypto, encrypted.pn, encrypted.hdr, encrypted.body)
                 /\ has_len =>
                      Slice(buffer, lo, lo + 2) = Slice(encrypted.hdr, lo - hs, lo - hs + 2)

C17_Witness ==
    /\ Returned("build")
    /\ started.fn = "long"
    /\ pnCalls > 0
    /\ sincePn > 0
    /\ Len(origin) > 0
    /\ encrypted.hdr # Slice(builder.encoder, builder.header.start, builder.header.end)
    /\ encrypted.hdr # Slice(buffer, builder.header.start, builder.header.end)

\* C18: whenever build() calls encrypt, pn() has been called, the packet
\* number passed is not the u64::MAX that short()/long() stored, and the
\* header passed is not empty.
C18_NeverThePlaceholder ==
    last.op = "build" =>
        /\ pnCalls > 0
        /\ encrypted.pn # U64_MAX
        /\ encrypted.hdr # <<>>

\* C19: the check of initial_token() passes exactly on a builder started
\* with long() for an Initial packet, before and after pn().
C19_InitialOnly ==
    state = "builder" =>
        (initial_token_check(builder) <=> (started.fn = "long" /\ started.pt = "Initial"))

C19_Witness ==
    /\ state = "builder"
    /\ started.fn = "long"
    /\ started.pt = "Initial"
    /\ pnCalls > 0
    /\ BitAnd(At(builder.encoder, builder.header.start), 3) = 3
    /\ initial_token_check(builder)

====
